---- MODULE Spec2Model ----
(***************************************************************************)
(* Model of framework/Administration/src/ROSUtil/_Interface.py: one        *)
(* interface object (InterfaceBase or one of its three subclasses), the     *)
(* manager thread that drives its lifecycle (registerManager/start/stop),  *)
(* client threads that call send()/receive() concurrently, and the rospy    *)
(* thread that delivers subscription callbacks.                            *)
(*                                                                         *)
(* Python attribute semantics are modelled as the interpreter applies      *)
(* them: a class with __slots__ and base object has no instance __dict__,  *)
(* so assigning an attribute that is not a slot raises AttributeError, and *)
(* reading an attribute that was never assigned raises AttributeError.     *)
(*                                                                         *)
(* Environment: registerManager, start and stop are called by one thread   *)
(* (the manager), one call at a time; send and receive are called by any   *)
(* client thread at any time, also while start or stop is under way.       *)
(* Manager objects are true in a boolean context. rospy may refuse the     *)
(* handle _start asks for, and registerInterface may raise; the calls made *)
(* by stop (unregister, unregisterInterface) return normally.              *)
(*                                                                         *)
(* The classmethod deserialize is a function of the class and the buffer;  *)
(* WireSpec applies it to every buffer that is a wire descriptor or a      *)
(* prefix of one. LEN_I and STRUCT_I are defined in ContentDefinition and  *)
(* modelled as a 4-byte unsigned length field, most significant byte first.*)
(***************************************************************************)
EXTENDS Integers, FiniteSets, Sequences, TLC

(* ------------------------------ bounds --------------------------------- *)
\* number of client threads calling send()/receive()
NClients == 2
\* total number of API calls and callback deliveries in one behaviour
MaxCalls == 4

\* longest interface name and service type in a wire descriptor
MaxName == 2
\* the bytes a name is written with are 1 .. MaxChar
MaxChar == 2

(* ------------------------------ values --------------------------------- *)
None == "None"
Clients == 1 .. NClients
Managers == {"m1", "m2"}
Kinds == {"InterfaceBase", "ServiceInterface", "PublisherInterface", "SubscriberInterface"}
\* serialized messages; "" is a legal (empty) serialized message
Payloads == {"", "A", "B"}
\* task IDs a caller may pass to receive()
TaskIDs == {"t1", "t2"}

\* threading.Lock: unlocked, or locked by one thread (a client, or the
\* callback thread, which is thread 0)
Unlocked == << >>
LockedBy(t) == <<t>>
CallbackThreadId == 0

\* Python truth value of an object: None and the empty string are false.
Truthy(x) == x # None /\ x # ""

VARIABLES
    kind,        \* class of the interface object
    manager,     \* self._manager
    ready,       \* self.ready
    registered,  \* manager side: is this interface in the manager's registry
    events,      \* how often each hook / manager capability has been invoked
    publisher,   \* PublisherInterface._publisher: "unset", "handle" or None
    subscriber,  \* SubscriberInterface._subscriber: "unset", "handle" or None
    tasks,       \* ServiceInterface._tasks: task ID -> ServiceTask
    tasksLock,   \* ServiceInterface._tasksLock
    lastMsg,     \* SubscriberInterface._lastMsg
    msgLock,     \* SubscriberInterface._msgLock
    mpc,         \* manager thread: position inside start()/stop()
    mret,        \* manager thread: outcome of its last call
    pc,          \* client threads: position inside send()/receive()
    arg,         \* client threads: argument of the call in progress
    sawReady,    \* client threads: self.ready as the call in progress read it
    ret,         \* client threads: outcome of the last finished call
    cbpc,        \* callback thread: position inside _callbackFunc
    cbmsg,       \* callback thread: msg._buff being delivered
    calls,       \* number of calls and deliveries begun so far
    data,        \* the wire buffer handed to cls.deserialize
    made         \* what cls.deserialize(data) returned or raised

vars == <<kind, manager, ready, registered, events, publisher, subscriber, tasks,
          tasksLock, lastMsg, msgLock, mpc, mret, pc, arg, sawReady, ret,
          cbpc,
          cbmsg, calls, data, made>>

ifaceVars == <<kind, manager, ready, registered, events, publisher, subscriber>>
svcVars == <<tasks, tasksLock>>
subVars == <<lastMsg, msgLock>>
mgrVars == <<mpc, mret>>
cliVars == <<pc, arg, sawReady, ret>>
cbVars == <<cbpc, cbmsg>>
wireVars == <<data, made>>

\* outcome of a call: what was called, the value of self.ready the call read
\* on entry, whether the subclass hook was entered, the exception raised
\* (None: normal return) and the value returned or the exception's message
Outcome(op, rdy, hook, exc, val) ==
    [op |-> op, ready |-> rdy, hook |-> hook, exc |-> exc, val |-> val]
NoOutcome == Outcome("none", FALSE, FALSE, None, None)

NoEvents == [start |-> 0, register |-> 0, stop |-> 0, unregister |-> 0]

(* ------------------- InterfaceBase.__init__ and subclasses -------------- *)
\* the object as its constructor leaves it
Constructed ==
    /\ kind \in Kinds
    /\ manager = None
    /\ ready = FALSE
    /\ registered = FALSE
    /\ events = NoEvents
    /\ publisher = "unset"
    /\ subscriber = "unset"
    /\ tasks = << >>
    /\ tasksLock = Unlocked
    /\ lastMsg = None
    /\ msgLock = Unlocked
    /\ mpc = "idle"
    /\ mret = NoOutcome
    /\ pc = [c \in Clients |-> "idle"]
    /\ arg = [c \in Clients |-> None]
    /\ sawReady = [c \in Clients |-> FALSE]
    /\ ret = [c \in Clients |-> NoOutcome]
    /\ cbpc = "idle"
    /\ cbmsg = None
    /\ calls = 0

\* the outcome of a deserialize call: the exception raised (None: an object
\* was returned), and the class, name and service type of the object
Object(called, exc, cls, name, srv) ==
    [called |-> called, exc |-> exc, cls |-> cls, name |-> name, srv |-> srv]
NoObject == Object(FALSE, None, None, << >>, << >>)

\* an interface constructed directly: cls(interfaceName), no wire buffer
Init ==
    /\ Constructed
    /\ data = << >>
    /\ made = NoObject

\* the manager thread returns from its call
MgrReturn(op, rdy, hook, exc, val) ==
    /\ mpc' = "idle"
    /\ mret' = Outcome(op, rdy, hook, exc, val)

(* ------------------------- registerManager ----------------------------- *)
\* a registerManager that never finds a manager bound
hasManager_unchecked == FALSE

\* if self._manager
hasManager == Truthy(manager)

registerManager(m) ==
    /\ mpc = "idle"
    /\ calls < MaxCalls
    /\ calls' = calls + 1
    /\ IF hasManager
       THEN /\ MgrReturn("registerManager", ready, FALSE, "InternalError",
                         "There is already a manager registered.")
            /\ UNCHANGED manager
       ELSE /\ manager' = m
            /\ MgrReturn("registerManager", ready, FALSE, None, None)
    /\ UNCHANGED <<kind, ready, registered, events, publisher, subscriber>>
    /\ UNCHANGED <<svcVars, subVars, cliVars, cbVars>>
    /\ UNCHANGED wireVars

(* ------------------------------- start --------------------------------- *)
\* a start() that sets the interface up again although it is ready
alreadyReady_unchecked == FALSE

\* if self.ready: return
alreadyReady == ready

\* start(), up to the call of the _start hook
start ==
    /\ mpc = "idle"
    /\ calls < MaxCalls
    /\ calls' = calls + 1
    /\ IF ~Truthy(manager)
       THEN MgrReturn("start", ready, FALSE, "InternalError",
                      "Can not start an interface without a registered manager.")
       ELSE IF alreadyReady
            THEN MgrReturn("start", TRUE, FALSE, None, None)
            ELSE /\ mpc' = "start_hook"
                 /\ UNCHANGED mret
    /\ UNCHANGED <<ifaceVars, svcVars, subVars, cliVars, cbVars>>
    /\ UNCHANGED wireVars

\* self._start(): pass in InterfaceBase and ServiceInterface; the publisher and
\* the subscriber acquire a rospy handle, which rospy may refuse
start_hook(ok) ==
    /\ mpc = "start_hook"
    /\ events' = [events EXCEPT !.start = @ + 1]
    /\ IF kind \in {"InterfaceBase", "ServiceInterface"}
       THEN /\ ok
            /\ mpc' = "start_register"
            /\ UNCHANGED <<mret, publisher, subscriber>>
       ELSE IF ok
            THEN /\ mpc' = "start_register"
                 /\ publisher' = IF kind = "PublisherInterface" THEN "handle" ELSE publisher
                 /\ subscriber' = IF kind = "SubscriberInterface" THEN "handle" ELSE subscriber
                 /\ UNCHANGED mret
            ELSE /\ MgrReturn("start", FALSE, TRUE, "ROSException", None)
                 /\ UNCHANGED <<publisher, subscriber>>
    /\ UNCHANGED <<kind, manager, ready, registered, calls>>
    /\ UNCHANGED <<svcVars, subVars, cliVars, cbVars>>
    /\ UNCHANGED wireVars

\* self._manager.registerInterface(self)
start_register(ok) ==
    /\ mpc = "start_register"
    /\ events' = [events EXCEPT !.register = @ + 1]
    /\ IF ok
       THEN /\ registered' = TRUE
            /\ mpc' = "start_ready"
            /\ UNCHANGED mret
       ELSE /\ MgrReturn("start", FALSE, TRUE, "ManagerError", None)
            /\ UNCHANGED registered
    /\ UNCHANGED <<kind, manager, ready, publisher, subscriber, calls>>
    /\ UNCHANGED <<svcVars, subVars, cliVars, cbVars>>
    /\ UNCHANGED wireVars

\* self.ready = True
start_ready ==
    /\ mpc = "start_ready"
    /\ ready' = TRUE
    /\ MgrReturn("start", FALSE, TRUE, None, None)
    /\ UNCHANGED <<kind, manager, registered, events, publisher, subscriber, calls>>
    /\ UNCHANGED <<svcVars, subVars, cliVars, cbVars>>
    /\ UNCHANGED wireVars

(* -------------------------------- stop --------------------------------- *)
stop ==
    /\ mpc = "idle"
    /\ calls < MaxCalls
    /\ calls' = calls + 1
    /\ IF ~ready
       THEN MgrReturn("stop", FALSE, FALSE, None, None)
       ELSE /\ mpc' = "stop_hook"
            /\ UNCHANGED mret
    /\ UNCHANGED <<ifaceVars, svcVars, subVars, cliVars, cbVars>>
    /\ UNCHANGED wireVars

\* self._stop(): unregister the rospy handle and set the attribute to None
stop_hook ==
    /\ mpc = "stop_hook"
    /\ events' = [events EXCEPT !.stop = @ + 1]
    /\ publisher' = IF kind = "PublisherInterface" THEN None ELSE publisher
    /\ subscriber' = IF kind = "SubscriberInterface" THEN None ELSE subscriber
    /\ mpc' = "stop_clear"
    /\ UNCHANGED <<kind, manager, ready, registered, mret, calls>>
    /\ UNCHANGED <<svcVars, subVars, cliVars, cbVars>>
    /\ UNCHANGED wireVars

\* a stop() that unregisters without clearing ready first
stop_clear_skipped ==
    /\ mpc = "stop_clear"
    /\ mpc' = "stop_unregister"
    /\ UNCHANGED <<ifaceVars, svcVars, subVars, cliVars, cbVars, mret, calls>>
    /\ UNCHANGED wireVars

\* self.ready = False
stop_clear ==
    /\ mpc = "stop_clear"
    /\ ready' = FALSE
    /\ mpc' = "stop_unregister"
    /\ UNCHANGED <<kind, manager, registered, events, publisher, subscriber, mret, calls>>
    /\ UNCHANGED <<svcVars, subVars, cliVars, cbVars>>
    /\ UNCHANGED wireVars

\* self._manager.unregisterInterface(self)
stop_unregister ==
    /\ mpc = "stop_unregister"
    /\ events' = [events EXCEPT !.unregister = @ + 1]
    /\ registered' = FALSE
    /\ MgrReturn("stop", TRUE, TRUE, None, None)
    /\ UNCHANGED <<kind, manager, ready, publisher, subscriber, calls>>
    /\ UNCHANGED <<svcVars, subVars, cliVars, cbVars>>
    /\ UNCHANGED wireVars

ManagerThread ==
    \/ \E m \in Managers : registerManager(m)
    \/ start
    \/ \E ok \in BOOLEAN : start_hook(ok)
    \/ \E ok \in BOOLEAN : start_register(ok)
    \/ start_ready
    \/ stop
    \/ stop_hook
    \/ stop_clear
    \/ stop_unregister

(* ------------------------------ ServiceTask ---------------------------- *)
\* ServiceTask.__slots__: the only attributes an instance can hold
ServiceTask_slots == {"_completed", "_error", "_srv", "_msg", "_id"}

\* the attributes ServiceTask.__init__ assigns, in order
ServiceTask_init_attrs ==
    <<"_id", "_srv", "_msg", "_completed", "_error", "_hasID", "_signalCompletion">>

\* self.<name> = value on a ServiceTask: AttributeError unless <name> is a slot
SetAttrRaises(name) == name \notin ServiceTask_slots

\* ServiceInterface.ServiceTask(srv, msg): the new task, or the exception that
\* the first assignment to a non-slot attribute raises
ServiceTask_init(msg) ==
    IF \E i \in DOMAIN ServiceTask_init_attrs : SetAttrRaises(ServiceTask_init_attrs[i])
    THEN [exc |-> "AttributeError", task |-> None]
    ELSE [exc |-> None,
          task |-> [id |-> None, msg |-> msg, completed |-> FALSE, error |-> FALSE]]

\* ServiceTask.getResult(): its first statement assigns self._signalCompleted
getResult(task) ==
    IF SetAttrRaises("_signalCompleted")
    THEN [exc |-> "AttributeError", val |-> None]
    ELSE IF task.completed THEN [exc |-> None, val |-> task.msg]
    ELSE IF task.error THEN [exc |-> "InternalError", val |-> task.msg]
    ELSE [exc |-> None, val |-> None]

(* ------------------------------- send ---------------------------------- *)
\* the client thread returns from its call
Return(c, op, rdy, hook, exc, val) ==
    /\ pc' = [pc EXCEPT ![c] = "idle"]
    /\ arg' = [arg EXCEPT ![c] = None]
    /\ sawReady' = [sawReady EXCEPT ![c] = FALSE]
    /\ ret' = [ret EXCEPT ![c] = Outcome(op, rdy, hook, exc, val)]

\* the readiness test of send() and receive(): raise if it is true
guardRaises(r) == r

\* send(msg), up to the call of the _send hook
send(c, msg) ==
    /\ pc[c] = "idle"
    /\ calls < MaxCalls
    /\ calls' = calls + 1
    /\ IF guardRaises(ready)
       THEN Return(c, "send", ready, FALSE, "InternalError",
                   "Interface is not ready to send a message.")
       ELSE /\ pc' = [pc EXCEPT ![c] = "send_hook"]
            /\ arg' = [arg EXCEPT ![c] = msg]
            /\ sawReady' = [sawReady EXCEPT ![c] = ready]
            /\ UNCHANGED ret
    /\ UNCHANGED <<ifaceVars, svcVars, subVars, mgrVars, cbVars>>
    /\ UNCHANGED wireVars

\* InterfaceBase._send, inherited by SubscriberInterface
InterfaceBase_send(c) ==
    /\ pc[c] = "send_hook"
    /\ kind \in {"InterfaceBase", "SubscriberInterface"}
    /\ Return(c, "send", sawReady[c], TRUE, "InternalError",
              "Interface does not support sending of a message.")
    /\ UNCHANGED calls
    /\ UNCHANGED <<ifaceVars, svcVars, subVars, mgrVars, cbVars>>
    /\ UNCHANGED wireVars

\* ServiceInterface._send: the construction of the ServiceTask raises, which
\* ends the call before the task is dispatched or registered. Were a task
\* constructed, lines 311-323 would follow; ServiceTask_init yields none.
ServiceInterface_send(c) ==
    /\ pc[c] = "send_hook"
    /\ kind = "ServiceInterface"
    /\ LET new == ServiceTask_init(arg[c]) IN
        /\ new.exc # None
        /\ Return(c, "send", sawReady[c], TRUE, new.exc, None)
    /\ UNCHANGED calls
    /\ UNCHANGED <<ifaceVars, svcVars, subVars, mgrVars, cbVars>>
    /\ UNCHANGED wireVars

\* PublisherInterface._send: self._publisher.publish(msg)
PublisherInterface_send(c, result) ==
    /\ pc[c] = "send_hook"
    /\ kind = "PublisherInterface"
    /\ IF publisher # "handle"
       THEN \* attribute never assigned, or None has no attribute publish
            /\ result = "ok"
            /\ Return(c, "send", sawReady[c], TRUE, "AttributeError", None)
       ELSE IF result = "ROSSerializationException"
            THEN Return(c, "send", sawReady[c], TRUE, "InternalError",
                        "Message could not be serialized by ROS.")
            ELSE Return(c, "send", sawReady[c], TRUE, None, "")
    /\ UNCHANGED calls
    /\ UNCHANGED <<ifaceVars, svcVars, subVars, mgrVars, cbVars>>
    /\ UNCHANGED wireVars

(* ------------------------------ receive -------------------------------- *)
\* receive(taskID), up to the call of the _receive hook
receive(c, taskID) ==
    /\ pc[c] = "idle"
    /\ calls < MaxCalls
    /\ calls' = calls + 1
    /\ IF guardRaises(ready)
       THEN Return(c, "receive", ready, FALSE, "InternalError",
                   "Interface is not ready to receive a message.")
       ELSE /\ pc' = [pc EXCEPT ![c] = "receive_hook"]
            /\ arg' = [arg EXCEPT ![c] = taskID]
            /\ sawReady' = [sawReady EXCEPT ![c] = ready]
            /\ UNCHANGED ret
    /\ UNCHANGED <<ifaceVars, svcVars, subVars, mgrVars, cbVars>>
    /\ UNCHANGED wireVars

\* InterfaceBase._receive, inherited by PublisherInterface
InterfaceBase_receive(c) ==
    /\ pc[c] = "receive_hook"
    /\ kind \in {"InterfaceBase", "PublisherInterface"}
    /\ Return(c, "receive", sawReady[c], TRUE, "InternalError",
              "Interface does not support receiving of a message.")
    /\ UNCHANGED calls
    /\ UNCHANGED <<ifaceVars, svcVars, subVars, mgrVars, cbVars>>
    /\ UNCHANGED wireVars

\* ServiceInterface._receive: with self._tasksLock (blocks while it is held)
ServiceInterface_receive_lock(c) ==
    /\ pc[c] = "receive_hook"
    /\ kind = "ServiceInterface"
    /\ tasksLock = Unlocked
    /\ tasksLock' = LockedBy(c)
    /\ pc' = [pc EXCEPT ![c] = "receive_locked"]
    /\ UNCHANGED <<tasks, arg, sawReady, ret, calls>>
    /\ UNCHANGED <<ifaceVars, subVars, mgrVars, cbVars>>
    /\ UNCHANGED wireVars

\* a lookup that answers an unknown task ID like a task without a result
receive_lookup_lenient(taskID) ==
    IF taskID \in DOMAIN tasks
    THEN getResult(tasks[taskID])
    ELSE [exc |-> None, val |-> None]

\* the body of the with block: self._tasks[taskID].getResult(), KeyError
\* turned into InternalError
receive_lookup(taskID) ==
    IF taskID \in DOMAIN tasks
    THEN getResult(tasks[taskID])
    ELSE [exc |-> "InternalError", val |-> "Invalid taskID used."]

\* a lock that stays locked when an exception leaves the block
with_exit_leaky(c, exc) == IF exc # None THEN LockedBy(c) ELSE Unlocked

\* the lock on leaving the with block, normally or by an exception
with_exit(c, exc) == Unlocked

\* ServiceInterface._receive from the lookup to the return
ServiceInterface_receive(c) ==
    /\ pc[c] = "receive_locked"
    /\ kind = "ServiceInterface"
    /\ LET got == receive_lookup(arg[c]) IN
        /\ tasksLock' = with_exit(c, got.exc)
        /\ IF got.exc # None
           THEN Return(c, "receive", sawReady[c], TRUE, got.exc, got.val)
           ELSE Return(c, "receive", sawReady[c], TRUE, None,
                       IF ~Truthy(got.val) THEN "" ELSE got.val)
    /\ UNCHANGED <<tasks, calls>>
    /\ UNCHANGED <<ifaceVars, subVars, mgrVars, cbVars>>
    /\ UNCHANGED wireVars

\* SubscriberInterface._receive: with self._msgLock
SubscriberInterface_receive_lock(c) ==
    /\ pc[c] = "receive_hook"
    /\ kind = "SubscriberInterface"
    /\ msgLock = Unlocked
    /\ msgLock' = LockedBy(c)
    /\ pc' = [pc EXCEPT ![c] = "receive_locked"]
    /\ UNCHANGED <<lastMsg, arg, sawReady, ret, calls>>
    /\ UNCHANGED <<ifaceVars, svcVars, mgrVars, cbVars>>
    /\ UNCHANGED wireVars

\* return self._lastMsg
SubscriberInterface_receive(c) ==
    /\ pc[c] = "receive_locked"
    /\ kind = "SubscriberInterface"
    /\ msgLock' = Unlocked
    /\ Return(c, "receive", sawReady[c], TRUE, None, lastMsg)
    /\ UNCHANGED <<lastMsg, calls>>
    /\ UNCHANGED <<ifaceVars, svcVars, mgrVars, cbVars>>
    /\ UNCHANGED wireVars

\* the steps a client takes inside a call it has begun
ClientStep(c) ==
    \/ InterfaceBase_send(c)
    \/ ServiceInterface_send(c)
    \/ \E result \in {"ok", "ROSInterruptException", "ROSSerializationException"} :
          PublisherInterface_send(c, result)
    \/ InterfaceBase_receive(c)
    \/ ServiceInterface_receive_lock(c)
    \/ ServiceInterface_receive(c)
    \/ SubscriberInterface_receive_lock(c)
    \/ SubscriberInterface_receive(c)

ClientThread(c) ==
    \/ \E msg \in Payloads : send(c, msg)
    \/ \E taskID \in TaskIDs : receive(c, taskID)
    \/ ClientStep(c)

(* ------------------- SubscriberInterface._callbackFunc ------------------ *)
\* rospy calls _callbackFunc(msg) while the subscription exists; the call
\* enters the with block once the lock is free
callbackFunc_lock(buff) ==
    /\ cbpc = "idle"
    /\ kind = "SubscriberInterface"
    /\ subscriber = "handle"
    /\ calls < MaxCalls
    /\ calls' = calls + 1
    /\ msgLock = Unlocked
    /\ msgLock' = LockedBy(CallbackThreadId)
    /\ cbpc' = "locked"
    /\ cbmsg' = buff
    /\ UNCHANGED <<lastMsg, ifaceVars, svcVars, mgrVars, cliVars>>
    /\ UNCHANGED wireVars

\* self._lastMsg = msg._buff
callbackFunc ==
    /\ cbpc = "locked"
    /\ lastMsg' = cbmsg
    /\ msgLock' = Unlocked
    /\ cbpc' = "idle"
    /\ cbmsg' = None
    /\ UNCHANGED <<calls, ifaceVars, svcVars, mgrVars, cliVars>>
    /\ UNCHANGED wireVars

CallbackThread ==
    \/ \E buff \in Payloads : callbackFunc_lock(buff)
    \/ callbackFunc

Next ==
    \/ ManagerThread
    \/ \E c \in Clients : ClientThread(c)
    \/ CallbackThread

Spec == Init /\ [][Next]_vars

(* --------------------- a ServiceInterface on its own ------------------- *)
\* ServiceInterface(cls, interfaceName)
ServiceInit == Init /\ kind = "ServiceInterface"

\* the steps a client takes inside a call of a ServiceInterface
ServiceClientStep(c) ==
    \/ ServiceInterface_send(c)
    \/ ServiceInterface_receive_lock(c)
    \/ ServiceInterface_receive(c)

\* the steps of Next that a ServiceInterface can take
ServiceNext ==
    \/ ManagerThread
    \/ \E c \in Clients :
          \/ \E msg \in Payloads : send(c, msg)
          \/ \E taskID \in TaskIDs : receive(c, taskID)
          \/ ServiceClientStep(c)

\* Every client thread keeps running inside a call it has begun. Nothing is
\* required of any other thread.
FairSpec ==
    ServiceInit /\ [][ServiceNext]_vars /\ \A c \in Clients : WF_vars(ServiceClientStep(c))

(* --------------------------- wire descriptors --------------------------- *)
\* ContentDefinition.LEN_I: the size of a length field
LEN_I == 4

\* STRUCT_I.pack(n): n as four bytes, most significant first
STRUCT_I_pack(n) ==
    <<(n \div 16777216) % 256, (n \div 65536) % 256, (n \div 256) % 256, n % 256>>

\* STRUCT_I.unpack(field) of a field of LEN_I bytes
STRUCT_I_unpack(field) ==
    ((field[1] * 256 + field[2]) * 256 + field[3]) * 256 + field[4]

\* STRUCT_I.unpack raises struct.error unless it is given LEN_I bytes
StructError(field) == Len(field) # LEN_I

\* data[start:end]: the bytes that exist between the two offsets, no error
\* when the buffer is shorter
Slice(buf, from, end) ==
    LET last == IF end < Len(buf) THEN end ELSE Len(buf)
    IN  IF from >= last THEN << >> ELSE SubSeq(buf, from + 1, last)

\* interface names and service types
Names == UNION {[1 .. n -> 1 .. MaxChar] : n \in 0 .. MaxName}

\* the descriptor of an interface: [length][name]
Descriptor(name) == STRUCT_I_pack(Len(name)) \o name

\* the descriptor of a service interface: [length][name][length][type]
ServiceDescriptor(name, srv) == Descriptor(name) \o Descriptor(srv)

\* the buffers a peer may send: the descriptors and everything cut short
Buffers ==
    {Slice(ServiceDescriptor(n, t), 0, k) :
        n \in Names, t \in Names, k \in 0 .. (2 * LEN_I + 2 * MaxName)}

\* a value is called like a class: a class constructs an object, a str
\* raises TypeError
IsClass(x) == x.type = "class"

\* InterfaceBase.deserialize(cls, data)
InterfaceBase_deserialize(cls, buf) ==
    LET field == Slice(buf, 0, LEN_I) IN
    IF StructError(field)
    THEN Object(TRUE, "SerializationError", None, << >>, << >>)
    ELSE LET length == STRUCT_I_unpack(field)
             name == Slice(buf, LEN_I, LEN_I + length)
         IN  Object(TRUE, None, cls, name, << >>)

\* ServiceInterface.deserialize(cls, data): line 300 rebinds cls to the bytes
\* of the service type, and line 304 calls that
ServiceInterface_deserialize(cls, buf) ==
    LET field1 == Slice(buf, 0, LEN_I) IN
    IF StructError(field1)
    THEN Object(TRUE, "SerializationError", None, << >>, << >>)
    ELSE LET length1 == STRUCT_I_unpack(field1)
             end1 == LEN_I + length1
             name == Slice(buf, LEN_I, end1)
             field2 == Slice(buf, end1, end1 + LEN_I)
         IN  IF StructError(field2)
             THEN Object(TRUE, "SerializationError", None, << >>, << >>)
             ELSE LET length2 == STRUCT_I_unpack(field2)
                      srv == Slice(buf, end1 + LEN_I, end1 + LEN_I + length2)
                      rebound == [type |-> "str", v |-> srv]
                  IN  IF IsClass(rebound)
                      THEN Object(TRUE, None, cls, name, srv)
                      ELSE Object(TRUE, "TypeError", None, << >>, << >>)

\* cls.deserialize(data) for a class that inherits InterfaceBase.deserialize
deserialize ==
    /\ ~made.called
    /\ kind # "ServiceInterface"
    /\ made' = InterfaceBase_deserialize(kind, data)
    /\ UNCHANGED <<data, ifaceVars, svcVars, subVars, mgrVars, cliVars, cbVars, calls>>

\* ServiceInterface.deserialize(data)
deserialize_service ==
    /\ ~made.called
    /\ kind = "ServiceInterface"
    /\ made' = ServiceInterface_deserialize(kind, data)
    /\ UNCHANGED <<data, ifaceVars, svcVars, subVars, mgrVars, cliVars, cbVars, calls>>

\* a buffer arrives for a class
WireInit ==
    /\ Constructed
    /\ data \in Buffers
    /\ made = NoObject

WireNext == deserialize \/ deserialize_service

WireSpec == WireInit /\ [][WireNext]_vars

(* ============================ properties =============================== *)
\* a client has returned from a call of op that entered the subclass hook
Returned(c, op) == pc[c] = "idle" /\ ret[c].op = op /\ ret[c].hook

\* C1: every send() of a ServiceInterface that has returned from _send
\* returned a task ID under which the registry holds a task, and two such
\* calls returned different task IDs: after N calls the registry holds N
\* distinct task IDs, one per dispatched task.
C1_SendRegistersDistinctTokens ==
    kind = "ServiceInterface" =>
        /\ \A c \in Clients :
              Returned(c, "send") => ret[c].exc = None /\ ret[c].val \in DOMAIN tasks
        /\ \A c, d \in Clients :
              (c # d /\ Returned(c, "send") /\ Returned(d, "send")) => ret[c].val # ret[d].val

\* the step in which client c leaves ServiceInterface._receive, called with
\* a task ID that is no key of the registry
UnknownTokenReturn(c) ==
    /\ kind = "ServiceInterface"
    /\ pc[c] = "receive_locked"
    /\ pc'[c] = "idle"
    /\ arg[c] \notin DOMAIN tasks

\* C3: receive(taskID) of a ServiceInterface with a task ID that is no key of
\* the registry fails with InternalError('Invalid taskID used.'), leaves the
\* registry lock unlocked, and no step of the call changes the registry.
C3_UnknownTokenFails ==
    [][\A c \in Clients :
          /\ UnknownTokenReturn(c) =>
                /\ ret'[c].exc = "InternalError"
                /\ ret'[c].val = "Invalid taskID used."
                /\ tasksLock' = Unlocked
          /\ (kind = "ServiceInterface" /\ pc[c] \in {"receive_hook", "receive_locked"}
                /\ arg[c] \notin DOMAIN tasks /\ pc'[c] # pc[c]) => tasks' = tasks]_vars

C3_Witness ==
    \E c \in Clients :
        /\ kind = "ServiceInterface"
        /\ Returned(c, "receive")
        /\ ret[c].exc = "InternalError"
        /\ ret[c].val = "Invalid taskID used."
        /\ tasksLock = Unlocked

\* C5: a send() or receive() that found the interface not ready failed with
\* InternalError without entering the subclass hook, and one that found it
\* ready entered the subclass hook.
C5_ReadinessGuard ==
    \A c \in Clients :
        (pc[c] = "idle" /\ ret[c].op \in {"send", "receive"}) =>
            IF ret[c].ready
            THEN ret[c].hook
            ELSE ~ret[c].hook /\ ret[c].exc = "InternalError"

C9_StartStopNoOp ==
    [][((start /\ ready) \/ (stop /\ ~ready)) =>
          /\ mpc' = "idle"
          /\ mret'.exc = None
          /\ ~mret'.hook
          /\ UNCHANGED <<ifaceVars, svcVars, subVars>>]_vars

C9_Witness ==
    /\ mpc = "idle"
    /\ mret = Outcome("start", TRUE, FALSE, None, None)
    /\ ready
    /\ events.start = 1
    /\ events.register = 1

\* C10: once self._manager is bound it never changes, and every
\* registerManager called while it is bound fails with InternalError.
C10_ManagerBoundOnce ==
    [][manager # None =>
          /\ manager' = manager
          /\ (\E m \in Managers : registerManager(m)) =>
                 /\ mret'.op = "registerManager"
                 /\ mret'.exc = "InternalError"]_vars

C10_Witness ==
    /\ manager # None
    /\ mpc = "idle"
    /\ mret.op = "registerManager"
    /\ mret.exc = "InternalError"

\* the slot of a SubscriberInterface holds what the last finished delivery
\* stored, and a _receive that returns, returns the slot as it is then
SlotHoldsLastDelivery ==
    /\ (cbpc = "locked" /\ cbpc' = "idle") => lastMsg' = cbmsg
    /\ lastMsg' # lastMsg => (cbpc = "locked" /\ cbpc' = "idle")
    /\ \A c \in Clients :
          (kind = "SubscriberInterface" /\ pc[c] = "receive_locked" /\ pc'[c] = "idle") =>
              /\ ret'[c].exc = None
              /\ ret'[c].val = lastMsg
              /\ ret'[c].val \in Payloads \cup {None}

\* C11: the slot of a SubscriberInterface holds the payload of the last
\* finished delivery; a receive() that begins when a payload has been
\* delivered and no delivery is under way goes on to read the slot, whatever
\* its taskID; and every receive() that reads the slot returns it whole: the
\* never-received sentinel or one delivered payload.
C11_LatestValueWins ==
    [][/\ SlotHoldsLastDelivery
       /\ \A c \in Clients :
             (/\ kind = "SubscriberInterface"
              /\ cbpc = "idle"
              /\ lastMsg # None
              /\ \E taskID \in TaskIDs : receive(c, taskID)) => pc'[c] = "receive_hook"]_vars

\* the part of C11 that the slot and _receive satisfy on their own
C11_SlotOnly == [][SlotHoldsLastDelivery]_vars

\* C12: deserializing the descriptor [length][n] yields an interface of the
\* class asked for whose name is n, and ServiceInterface.deserialize of
\* [length][n][length][t] yields a ServiceInterface with name n and service
\* type t.
C12_RoundTrip ==
    made.called =>
        /\ \A n \in Names :
              (kind # "ServiceInterface" /\ data = Descriptor(n)) =>
                  made.exc = None /\ made.cls = kind /\ made.name = n
        /\ \A n, t \in Names :
              (kind = "ServiceInterface" /\ data = ServiceDescriptor(n, t)) =>
                  made.exc = None /\ made.cls = kind /\ made.name = n /\ made.srv = t

\* the part of C12 about [length][n]
C12_NameRoundTrip ==
    made.called =>
        \A n \in Names :
            (kind # "ServiceInterface" /\ data = Descriptor(n)) =>
                made.exc = None /\ made.cls = kind /\ made.name = n

\* a length field at offset from is cut short, or declares more bytes than
\* the buffer holds after it
BadField(buf, from) ==
    \/ Len(buf) < from + LEN_I
    \/ STRUCT_I_unpack(Slice(buf, from, from + LEN_I)) > Len(buf) - (from + LEN_I)

\* the buffer is no well-formed descriptor for the class
Malformed(cls, buf) ==
    \/ BadField(buf, 0)
    \/ /\ cls = "ServiceInterface"
       /\ BadField(buf, LEN_I + STRUCT_I_unpack(Slice(buf, 0, LEN_I)))

\* C13: deserialize fails with SerializationError on every buffer with a
\* truncated length field or a length field that declares more bytes than
\* remain; it returns no interface for such a buffer.
C13_MalformedRejected ==
    (made.called /\ Malformed(kind, data)) => made.exc = "SerializationError"

\* C18: in every state, the states inside start() and stop() included, a
\* ready interface is registered with its manager; and a start() that failed
\* in the startup hook or in registerInterface has left the interface not
\* ready.
C18_ReadyImpliesRegistered ==
    /\ ready => registered
    /\ (/\ mpc = "idle"
        /\ mret.op = "start"
        /\ mret.exc \in {"ROSException", "ManagerError"}) => ~ready

\* a first start() failed, a second one succeeded, and stop() has cleared
\* ready but has not unregistered yet
C18_Witness ==
    /\ mpc = "stop_unregister"
    /\ ~ready
    /\ registered
    /\ events.start = 2
    /\ events.unregister = 0
====
